---- MODULE Spec2Model ----
(***************************************************************************)
(* Automated Pricing Engine (backend/app/services/pricing_service.py and   *)
(* ProductService.update_price).                                           *)
(*                                                                         *)
(* Money is an integer number of cents.  Every other Numeric(…, 2) value   *)
(* (adjustment_value, min_margin, max_margin) is an integer number of      *)
(* hundredths, so 30.00 % is 3000 and the multiplier 2.5 is 250.  None and *)
(* every falsy value the code tests with "if x" / "x or y" is 0.           *)
(*                                                                         *)
(* The ledger rows carry the fields the service writes (price_type,        *)
(* old_price, new_price, change_source; cost_at_adjustment,                *)
(* margin_achieved), and the rules carry the fields the service reads      *)
(* (product_id, category_id, brand_id, adjustment_type, adjustment_value,  *)
(* min_margin, max_margin).                                                *)
(***************************************************************************)
EXTENDS Integers, Sequences, FiniteSets, TLC

VARIABLES
    products,           \* Product rows: id -> [base_cost, retail_price, brand_id, category_id]
    rules,              \* PriceAdjustmentRule rows, rules[i].id = i
    product_suppliers,  \* ProductSupplier rows: id -> [product_id, supplier_id, supplier_sku, cost_price,
                        \*   last_cost_price, last_checked_at, is_active]
    history,            \* PriceHistory rows in insertion order
    logs,               \* PriceAdjustmentLog rows in insertion order
    result,             \* what the last handler call returned or raised
    nops,               \* number of calls made so far of the handlers that write prices or ledger rows
    session,            \* per request session: the product read and the write it has pending,
                        \*   or the supplier whose feed the request is fetching
    api_config,         \* the supplier's API configuration as the service uses it: supplier id ->
                        \*   [is_active, last_sync_at, last_sync_status, sync_interval_hours, next_sync_at]
    now                 \* datetime.utcnow(), in hours

vars == <<products, rules, product_suppliers, history, logs, result, nops, session, api_config, now>>

(***************************************************************************)
(* Bounds                                                                  *)
(***************************************************************************)
MaxOps == 2
MaxRules == 3

ProductIds == {1, 2, 3}
MissingProductId == Cardinality(ProductIds) + 1
SupplierIds == {1}

(***************************************************************************)
(* Decimal arithmetic                                                      *)
(***************************************************************************)
Abs(x) == IF x < 0 THEN -x ELSE x

\* Decimal.quantize(Decimal("0.01"), rounding=ROUND_HALF_UP) of the exact
\* quotient n/d: nearest cent, ties away from zero.
Quantize(n, d) ==
    LET nn == IF d < 0 THEN -n ELSE n
        dd == Abs(d)
    IN  IF nn >= 0 THEN (2 * nn + dd) \div (2 * dd)
        ELSE -((2 * (-nn) + dd) \div (2 * dd))

\* margin = ((new_price - cost) / new_price * 100) if new_price > 0 else 0,
\* kept as the exact fraction num/den (a percentage).
Margin(price, cost) ==
    IF price > 0 THEN [num |-> (price - cost) * 100, den |-> price]
    ELSE [num |-> 0, den |-> 1]

\* margin < bound and margin > bound, bound in hundredths of a percent
MarginBelow(m, bound) == m.num * 100 < bound * m.den
MarginAbove(m, bound) == m.num * 100 > bound * m.den

AdjustmentTypes == {"percentage", "fixed", "multiplier"}

\* lines 299-311: the rule's raw price, before rounding, as a fraction
RawPrice(rule, cost) ==
    CASE rule.adjustment_type = "percentage" ->
            [n |-> cost * 10000 + cost * rule.adjustment_value, d |-> 10000]
      [] rule.adjustment_type = "fixed" ->
            [n |-> cost + rule.adjustment_value, d |-> 1]
      [] rule.adjustment_type = "multiplier" ->
            [n |-> cost * rule.adjustment_value, d |-> 100]

\* cost / (1 - bound / 100), quantized; the division raises when bound = 100
MarginPrice(cost, bound) == Quantize(cost * 10000, 10000 - bound)

\* whether the clamp the call takes divides by zero (decimal.DivisionByZero)
ClampRaises(rule, cost) ==
    LET raw    == RawPrice(rule, cost)
        margin == Margin(Quantize(raw.n, raw.d), cost)
    IN  \/ rule.min_margin = 10000 /\ MarginBelow(margin, rule.min_margin)
        \/ rule.max_margin = 10000 /\ MarginAbove(margin, rule.max_margin)

\* lines 313-327: round, compute the margin once, clamp against the rule's
\* min_margin and then against its max_margin, both tested on that margin
CalcPrice(rule, cost) ==
    LET raw    == RawPrice(rule, cost)
        p0     == Quantize(raw.n, raw.d)
        margin == Margin(p0, cost)
        p1     == IF rule.min_margin # 0 /\ MarginBelow(margin, rule.min_margin)
                  THEN MarginPrice(cost, rule.min_margin) ELSE p0
        p2     == IF rule.max_margin # 0 /\ MarginAbove(margin, rule.max_margin)
                  THEN MarginPrice(cost, rule.max_margin) ELSE p1
    IN  [price |-> p2, margin |-> margin]

(***************************************************************************)
(* The record store                                                        *)
(***************************************************************************)
Db == [products |-> products, product_suppliers |-> product_suppliers,
       history |-> history, logs |-> logs]

RuleIds == 1 .. Len(rules)

HistoryRow(pid, sid, ptype, old, new, source) ==
    [product_id |-> pid, supplier_id |-> sid, price_type |-> ptype,
     old_price |-> old, new_price |-> new, change_source |-> source]

\* status is the column's default (models/price_history.py line 91)
LogRow(pid, rid, old, new, cost, margin) ==
    [product_id |-> pid, rule_id |-> rid, old_price |-> old, new_price |-> new,
     cost_at_adjustment |-> cost, margin_achieved |-> margin, status |-> "applied"]

(***************************************************************************)
(* apply_adjustment_rule, lines 269-357                                    *)
(***************************************************************************)
\* The outcome of one call on the store db: the store after it, the error it
\* raised ("" when it returned), the price it computed and the price it read.
ApplyRaised(db, error, old) ==
    [db |-> db, raised |-> error, computed |-> 0, old |-> old]

\* lines 329-357: the rows and the new price are written when the price differs
\* a store step that writes its rows whether or not the price changed
ApplyStoreAlways(db, pid, rid, cost, old, calc) ==
    [db |-> [db EXCEPT
        !.history = Append(@, HistoryRow(pid, 0, "retail", old, calc.price, "rule_application")),
        !.logs = Append(@, LogRow(pid, rid, old, calc.price, cost, calc.margin)),
        !.products[pid].retail_price = calc.price],
     raised |-> "", computed |-> calc.price, old |-> old]

ApplyStore(db, pid, rid, cost, old, calc) ==
    IF calc.price # old
    THEN [db |-> [db EXCEPT
              !.history = Append(@, HistoryRow(pid, 0, "retail", old, calc.price, "rule_application")),
              !.logs = Append(@, LogRow(pid, rid, old, calc.price, cost, calc.margin)),
              !.products[pid].retail_price = calc.price],
          raised |-> "", computed |-> calc.price, old |-> old]
    ELSE [db |-> db, raised |-> "", computed |-> calc.price, old |-> old]

\* an application that computes from whatever cost it has, zero included
ApplyRuleNoCostCheck(db, pid, rid, base_cost) ==
    IF pid \notin DOMAIN db.products \/ rid \notin RuleIds
    THEN ApplyRaised(db, "NotFound", 0)
    ELSE ApplyStore(db, pid, rid,
                    IF base_cost # 0 THEN base_cost ELSE db.products[pid].base_cost,
                    db.products[pid].retail_price,
                    CalcPrice(rules[rid],
                              IF base_cost # 0 THEN base_cost ELSE db.products[pid].base_cost))

ApplyRule(db, pid, rid, base_cost) ==
    IF pid \notin DOMAIN db.products
    THEN ApplyRaised(db, "NotFound", 0)
    ELSE IF rid \notin RuleIds
    THEN ApplyRaised(db, "NotFound", 0)
    ELSE
    LET product == db.products[pid]
        rule    == rules[rid]
        cost    == IF base_cost # 0 THEN base_cost ELSE product.base_cost
        old     == product.retail_price
    IN  IF cost = 0
        THEN ApplyRaised(db, "BusinessLogic", old)
        ELSE IF rule.adjustment_type \notin AdjustmentTypes
        THEN ApplyRaised(db, "BusinessLogic", old)
        ELSE IF ClampRaises(rule, cost)
        THEN ApplyRaised(db, "Arithmetic", old)
        ELSE ApplyStore(db, pid, rid, cost, old, CalcPrice(rule, cost))

(***************************************************************************)
(* bulk_price_update, lines 469-532                                        *)
(***************************************************************************)
BulkNewPrice(old, adjustment_type, adjustment_value) ==
    CASE adjustment_type = "percentage" ->
            Quantize(old * 10000 + old * adjustment_value, 10000)
      [] adjustment_type = "fixed" -> old + adjustment_value
      [] adjustment_type = "set" -> adjustment_value

BulkTypes == {"percentage", "fixed", "set"}

\* the loop of lines 480-523 over the ids still to process; st carries the
\* store, the updated counter and the error list
RECURSIVE BulkLoop(_, _, _, _)
BulkLoop(st, ids, adjustment_type, adjustment_value) ==
    IF ids = <<>> THEN st
    ELSE
    LET pid  == Head(ids)
        rest == Tail(ids)
    IN  IF pid \notin DOMAIN st.db.products
        THEN BulkLoop([st EXCEPT !.errors = Append(@, [product_id |-> pid, error |-> "Not found"])],
                      rest, adjustment_type, adjustment_value)
        ELSE IF adjustment_type \notin BulkTypes
        THEN BulkLoop([st EXCEPT !.errors = Append(@, [product_id |-> pid, error |-> "Invalid adjustment type"])],
                      rest, adjustment_type, adjustment_value)
        ELSE
        LET old == st.db.products[pid].retail_price
            new == BulkNewPrice(old, adjustment_type, adjustment_value)
        IN  IF new # old
            THEN BulkLoop([st EXCEPT
                             !.db.history = Append(@, HistoryRow(pid, 0, "retail", old, new, "bulk_update")),
                             !.db.products[pid].retail_price = new,
                             !.updated = @ + 1],
                          rest, adjustment_type, adjustment_value)
            ELSE BulkLoop(st, rest, adjustment_type, adjustment_value)

\* a bulk update that gives up on the whole list when an id is not found
BulkUpdateAllOrNothing(db, ids, adjustment_type, adjustment_value) ==
    IF \E i \in 1 .. Len(ids) : ids[i] \notin DOMAIN db.products
    THEN [db |-> db, updated |-> 0,
          errors |-> <<[product_id |-> MissingProductId, error |-> "Not found"]>>]
    ELSE BulkLoop([db |-> db, updated |-> 0, errors |-> <<>>], ids, adjustment_type, adjustment_value)

BulkUpdate(db, ids, adjustment_type, adjustment_value) ==
    BulkLoop([db |-> db, updated |-> 0, errors |-> <<>>], ids, adjustment_type, adjustment_value)

(***************************************************************************)
(* ProductService.update_price, product_service.py lines 252-270           *)
(***************************************************************************)
\* An Optional argument is <<>> for None and <<v>> for the value v.
None == <<>>
Some(v) == <<v>>

UpdatePriceOp(db, pid, new_cost, new_retail_price) ==
    IF pid \notin DOMAIN db.products
    THEN [db |-> db, raised |-> "NotFound"]
    ELSE [db |-> [db EXCEPT
                    !.products[pid].base_cost =
                        IF new_cost # None THEN new_cost[1] ELSE @,
                    !.products[pid].retail_price =
                        IF new_retail_price # None THEN new_retail_price[1] ELSE @],
          raised |-> ""]

(***************************************************************************)
(* _check_auto_adjust, lines 236-267                                       *)
(***************************************************************************)
\* lines 239-247: the active cost_plus rules, ORDER BY priority DESC; rows of
\* equal priority come back in any order
QueriedRuleIds ==
    {i \in RuleIds : rules[i].is_active /\ rules[i].rule_type = "cost_plus"}

RuleQueryOrders ==
    LET ids == QueriedRuleIds
        n   == Cardinality(ids)
    IN  {o \in [1 .. n -> ids] :
            /\ \A i, j \in 1 .. n : i # j => o[i] # o[j]
            /\ \A i, j \in 1 .. n :
                  i < j => rules[o[i]].priority >= rules[o[j]].priority}

IsGlobal(rule) ==
    rule.product_id = 0 /\ rule.category_id = 0 /\ rule.brand_id = 0

\* a resolver that takes the first rule of the query, whatever its scope
ResolveFirst(order, pid, product, applicable) ==
    IF order = <<>> THEN applicable ELSE rules[Head(order)].id

\* lines 249-264: the loop over the query result; applicable is the rule id
\* held so far (0 for None)
RECURSIVE ResolveLoop(_, _, _, _)
ResolveLoop(order, pid, product, applicable) ==
    IF order = <<>> THEN applicable
    ELSE
    LET rule == rules[Head(order)]
    IN  IF rule.product_id # 0 /\ rule.product_id = pid
        THEN rule.id
        ELSE IF rule.category_id # 0
        THEN ResolveLoop(Tail(order), pid, product, applicable)
        ELSE IF rule.brand_id # 0 /\ rule.brand_id = product.brand_id
        THEN rule.id
        ELSE IF IsGlobal(rule)
        THEN ResolveLoop(Tail(order), pid, product, rule.id)
        ELSE ResolveLoop(Tail(order), pid, product, applicable)

\* lines 266-267: the selected rule is applied with the new cost
Adjusted(applied, applicable) ==
    [db |-> applied.db, raised |-> applied.raised, selected |-> applicable]

CheckAutoAdjust(db, order, pid, new_cost) ==
    LET applicable == ResolveLoop(order, pid, db.products[pid], 0)
    IN  IF applicable # 0
        THEN Adjusted(ApplyRule(db, pid, applicable, new_cost), applicable)
        ELSE [db |-> db, raised |-> "", selected |-> 0]

(***************************************************************************)
(* _parse_supplier_response, lines 151-179                                 *)
(***************************************************************************)
\* A feed is [shape, entries].  shape is the JSON shape of the response:
\*   "items"    {"items": [{"sku": s, "price": p}, ...]}
\*   "flat"     {s: p, ...}
\*   "products" {"products": {s: {"price": p}, ...}}
\*   "list"     [{"sku": s, "price": p}, ...]
\*   "null"     null
\* An entry is [sku, has_price, numeric, price]: has_price is whether the
\* price key is present, numeric whether Decimal(str(p)) parses.
FeedShapes == {"items", "flat", "products", "list", "null"}

\* price is the number of cents a Numeric(10, 2) column keeps of the value;
\* exact says that the value has no digit beyond the cent, so that
\* Decimal(str(price)) equals the column's value
Entry(sku, has_price, numeric, price) ==
    [sku |-> sku, has_price |-> has_price, numeric |-> numeric, price |-> price,
     exact |-> TRUE]

\* an entry whose price has a third decimal, such as 109.999 for 11000
InexactEntry(sku, price) == [Entry(sku, TRUE, TRUE, price) EXCEPT !.exact = FALSE]

\* the skus whose parsed Decimal no two-decimal column value equals
InexactSkus(feed) ==
    {feed.entries[i].sku : i \in {j \in 1 .. Len(feed.entries) : ~feed.entries[j].exact}}

\* the sku -> cost dict is a function on the skus stored so far
EmptyPrices == [k \in {} |-> 0]

RECURSIVE ParseEntries(_, _, _)
ParseEntries(shape, entries, prices) ==
    IF entries = <<>> THEN [raised |-> "", prices |-> prices]
    ELSE
    LET e    == Head(entries)
        rest == Tail(entries)
    IN  IF ~e.has_price
        THEN \* line 162, line 176: no price key, the entry is skipped
             \* (a flat map has no entry without a value)
             ParseEntries(shape, rest, prices)
        ELSE IF e.numeric
        THEN ParseEntries(shape, rest, (e.sku :> e.price) @@ prices)
        ELSE IF shape = "flat"
        THEN \* lines 168-171: except: pass
             ParseEntries(shape, rest, prices)
        ELSE \* lines 163, 177: Decimal(str(price)) raises InvalidOperation
             [raised |-> "InvalidOperation", prices |-> prices]

\* a parser that knows the "items" list and the flat map only
ParseWithoutProducts(feed) ==
    IF feed.shape \in {"items", "flat"}
    THEN ParseEntries(feed.shape, feed.entries, EmptyPrices)
    ELSE [raised |-> "", prices |-> EmptyPrices]

ParseSupplierResponse(feed) ==
    IF feed.shape \in {"items", "flat", "products"}
    THEN ParseEntries(feed.shape, feed.entries, EmptyPrices)
    ELSE IF feed.shape = "null"
    THEN \* line 160: "items" in None raises TypeError
         [raised |-> "TypeError", prices |-> EmptyPrices]
    ELSE \* a list has no "items" member, is no dict and has no "products" member
         [raised |-> "", prices |-> EmptyPrices]

(***************************************************************************)
(* sync_supplier_prices, lines 87-149                                      *)
(***************************************************************************)
\* lines 93-98: the active rows of the supplier, in id order
SupplierRows(db, sid) ==
    LET ids == {i \in DOMAIN db.product_suppliers :
                  /\ db.product_suppliers[i].supplier_id = sid
                  /\ db.product_suppliers[i].is_active}
        n   == Cardinality(ids)
    IN  CHOOSE o \in [1 .. n -> ids] :
            \A i, j \in 1 .. n : i < j => o[i] < o[j]

\* lines 113-128: the cost history row is added and the row's cost is set
CostRecorded(db, id, sid, new_cost) ==
    [db EXCEPT
        !.history = Append(@, HistoryRow(db.product_suppliers[id].product_id, sid, "cost",
                                         db.product_suppliers[id].cost_price, new_cost,
                                         "supplier_sync")),
        !.product_suppliers[id].cost_price = new_cost]

\* lines 131-139: the row counts as updated unless the adjustment raised,
\* then it is reported in errors; what was written before the raise stays
RowDone(st, pid, adj) ==
    IF adj.raised # ""
    THEN [st EXCEPT !.db = adj.db,
                    !.resolutions = Append(@, [product_id |-> pid, rule_id |-> adj.selected]),
                    !.errors = Append(@, [product_id |-> pid, error |-> adj.raised])]
    ELSE [st EXCEPT !.db = adj.db,
                    !.resolutions = Append(@, [product_id |-> pid, rule_id |-> adj.selected]),
                    !.updated = @ + 1]

\* lines 107-139: the loop over the rows still to process
RECURSIVE SyncLoop(_, _, _, _, _)
SyncLoop(st, rows, sid, prices, order) ==
    IF rows = <<>> THEN st
    ELSE
    LET id == Head(rows)
        ps == st.db.product_suppliers[id]
    IN  IF ps.supplier_sku \notin DOMAIN prices
        THEN SyncLoop(st, Tail(rows), sid, prices, order)
        ELSE IF prices[ps.supplier_sku] = ps.cost_price /\ ps.supplier_sku \notin st.inexact
        THEN \* line 113: the fetched Decimal equals the loaded column value
             SyncLoop(st, Tail(rows), sid, prices, order)
        ELSE SyncLoop(RowDone(st, ps.product_id,
                              CheckAutoAdjust(CostRecorded(st.db, id, sid, prices[ps.supplier_sku]),
                                              order, ps.product_id, prices[ps.supplier_sku])),
                      Tail(rows), sid, prices, order)

SyncRaised(db, error) ==
    [db |-> db, raised |-> error, checked |-> 0, updated |-> 0,
     errors |-> <<>>, resolutions |-> <<>>]

\* lines 143-149: the result dict
SyncReturned(st, checked) ==
    [db |-> st.db, raised |-> "", checked |-> checked, updated |-> st.updated,
     errors |-> st.errors, resolutions |-> st.resolutions]

\* fetch is what fetch_supplier_prices did: "" when it returned the feed,
\* otherwise the error it raised (lines 46-52, 82-85)
SyncSupplier(db, sid, fetch, feed, order) ==
    IF fetch # ""
    THEN SyncRaised(db, fetch)
    ELSE IF ParseSupplierResponse(feed).raised # ""
    THEN SyncRaised(db, ParseSupplierResponse(feed).raised)
    ELSE SyncReturned(SyncLoop([db |-> db, updated |-> 0, errors |-> <<>>, resolutions |-> <<>>,
                                inexact |-> InexactSkus(feed)],
                               SupplierRows(db, sid), sid,
                               ParseSupplierResponse(feed).prices, order),
                      Len(SupplierRows(db, sid)))

(***************************************************************************)
(* create_adjustment_rule, lines 202-234                                   *)
(***************************************************************************)
Rule(id, product_id, category_id, brand_id, priority, adjustment_type, adjustment_value, min_margin, max_margin) ==
    [id |-> id, rule_type |-> "cost_plus", product_id |-> product_id,
     category_id |-> category_id, brand_id |-> brand_id,
     adjustment_type |-> adjustment_type, adjustment_value |-> adjustment_value,
     min_margin |-> min_margin, max_margin |-> max_margin,
     priority |-> priority, is_active |-> TRUE]

\* the rule definitions an operator submits; the id is assigned on insert
RuleCatalogue ==
    {Rule(0, 1, 0, 0, 5, "percentage", 3000, 1500, 4000),
     Rule(0, 0, 0, 1, 50, "fixed", 2000, 0, 0),
     Rule(0, 0, 0, 0, 100, "multiplier", 250, 0, 4000),
     Rule(0, 0, 0, 0, 1, "percentage", 0, 1500, 0),
     Rule(0, 0, 1, 0, 70, "percentage", 5000, 0, 0),
     Rule(0, 0, 0, 0, 100, "fixed", 100, 0, 0)}

(***************************************************************************)
(* Initial state                                                           *)
(***************************************************************************)
Product(base_cost, retail_price, brand_id, category_id) ==
    [base_cost |-> base_cost, retail_price |-> retail_price,
     brand_id |-> brand_id, category_id |-> category_id]

InitProducts ==
    (1 :> Product(10000, 15000, 1, 1)) @@
    (2 :> Product(97, 120, 0, 0)) @@
    (3 :> Product(5000, 6500, 2, 0))

ProductSupplierRow(product_id, supplier_sku, cost_price) ==
    [product_id |-> product_id, supplier_id |-> 1,
     supplier_sku |-> supplier_sku, cost_price |-> cost_price,
     last_cost_price |-> 0, last_checked_at |-> 0, is_active |-> TRUE]

InitProductSuppliers ==
    (1 :> ProductSupplierRow(1, "A", 10000)) @@
    (2 :> ProductSupplierRow(2, "B", 100)) @@
    (3 :> ProductSupplierRow(3, "C", 5000))

\* a rule store an operator has configured
InitRules ==
    <<Rule(1, 1, 0, 0, 5, "percentage", 3000, 1500, 4000),
      Rule(2, 0, 0, 0, 100, "multiplier", 250, 0, 4000),
      Rule(3, 0, 0, 0, 1, "percentage", 0, 1500, 0),
      Rule(4, 0, 0, 1, 50, "fixed", 2000, 0, 0)>>

Sessions == {1, 2}
IdleSession == [pc |-> "idle"]
NoResult == [op |-> "none", n |-> 0, raised |-> ""]

\* a configuration nobody has scheduled or synced yet
ApiConfig ==
    [is_active |-> TRUE, last_sync_at |-> 0, last_sync_status |-> "",
     sync_interval_hours |-> 0, next_sync_at |-> 0]

InitStore ==
    /\ api_config = [sid \in SupplierIds |-> ApiConfig]
    /\ now = 1
    /\ products = InitProducts
    /\ product_suppliers = InitProductSuppliers
    /\ history = <<>>
    /\ logs = <<>>
    /\ result = NoResult
    /\ nops = 0
    /\ session = [s \in Sessions |-> IdleSession]

Init == InitStore /\ rules = InitRules

InitResolve == InitStore /\ rules = <<>>

(***************************************************************************)
(* Handlers, one request at a time                                         *)
(***************************************************************************)
\* a commit that keeps the rows of this request only
PersistLatest(db) ==
    /\ products' = db.products
    /\ product_suppliers' = db.product_suppliers
    /\ history' = SubSeq(db.history, Len(history) + 1, Len(db.history))
    /\ logs' = SubSeq(db.logs, Len(logs) + 1, Len(db.logs))

Persist(db) ==
    /\ products' = db.products
    /\ product_suppliers' = db.product_suppliers
    /\ history' = db.history
    /\ logs' = db.logs

CreateAdjustmentRule ==
    /\ Len(rules) < MaxRules
    /\ \E r \in RuleCatalogue :
          rules' = Append(rules, [r EXCEPT !.id = Len(rules) + 1])
    /\ UNCHANGED <<products, product_suppliers, history, logs, result, nops, session, api_config, now>>

\* an operator who configures scoped rules only
CreateScopedRule ==
    /\ Len(rules) < MaxRules
    /\ \E r \in {c \in RuleCatalogue : ~IsGlobal(c)} :
          rules' = Append(rules, [r EXCEPT !.id = Len(rules) + 1])
    /\ UNCHANGED <<products, product_suppliers, history, logs, result, nops, session, api_config, now>>

ApplyCosts == {0, 4999}

ApplyAdjustmentRule ==
    /\ nops < MaxOps
    /\ \E pid \in ProductIds \cup {MissingProductId},
          rid \in 1 .. Len(rules) + 1,
          base_cost \in ApplyCosts :
          \E r \in {ApplyRule(Db, pid, rid, base_cost)} :
              /\ Persist(r.db)
              /\ result' = [op |-> "apply", n |-> nops + 1, raised |-> r.raised,
                            product_id |-> pid, rule_id |-> rid, base_cost |-> base_cost,
                            computed |-> r.computed, old_price |-> r.old]
    /\ nops' = nops + 1
    /\ UNCHANGED <<rules, session, api_config, now>>

BulkIdLists == {<<1>>, <<2, 3>>, <<MissingProductId, 3>>}
BulkAdjustments ==
    {<<"percentage", 1000>>, <<"fixed", 1>>, <<"set", 6499>>, <<"set", 6500>>,
     <<"set_margin", 3000>>}

\* the bulk-update request (endpoints/pricing.py lines 195-218): the handler
\* passes product_ids, adjustment_type and adjustment_value to the service;
\* the request's preview_only is not passed on
BulkPriceUpdate ==
    /\ nops < MaxOps
    /\ \E ids \in BulkIdLists, adj \in BulkAdjustments, preview_only \in BOOLEAN :
          \E r \in {BulkUpdate(Db, ids, adj[1], adj[2])} :
              /\ Persist(r.db)
              /\ result' = [op |-> "bulk", n |-> nops + 1, raised |-> "",
                            product_ids |-> ids, adjustment_type |-> adj[1],
                            adjustment_value |-> adj[2], preview_only |-> preview_only,
                            products_processed |-> Len(ids),
                            products_updated |-> r.updated, errors |-> r.errors]
    /\ nops' = nops + 1
    /\ UNCHANGED <<rules, session, api_config, now>>

UpdatePrice ==
    /\ nops < MaxOps
    /\ \E pid \in ProductIds \cup {MissingProductId},
          new_cost \in {None, Some(0), Some(5000)},
          new_retail_price \in {None, Some(6499)} :
          \E r \in {UpdatePriceOp(Db, pid, new_cost, new_retail_price)} :
              /\ Persist(r.db)
              /\ result' = [op |-> "update_price", n |-> nops + 1, raised |-> r.raised,
                            product_id |-> pid]
    /\ nops' = nops + 1
    /\ UNCHANGED <<rules, session, api_config, now>>

\* the feeds: sku/price pairs for the three supplier rows, in each shape,
\* well formed or with one entry whose price is not numeric or is missing
Skus == <<"A", "B", "C">>
FeedPriceLists == {<<11000, 97, 6000>>, <<10000, 100, 5000>>}

FeedEntries(list, bad, missing) ==
    [i \in 1 .. Len(Skus) |-> Entry(Skus[i], i # missing, i # bad, list[i])]

Feeds ==
    {[shape |-> sh, entries |-> FeedEntries(l, bad, 0)] :
        sh \in FeedShapes \ {"null"}, l \in FeedPriceLists, bad \in 0 .. Len(Skus)}
    \cup
    {[shape |-> "null", entries |-> <<>>]}
    \cup
    {[shape |-> sh, entries |-> FeedEntries(l, 0, 2)] :
        sh \in {"items", "products"}, l \in FeedPriceLists}

\* a feed that carries one sku
CostChangeFeeds ==
    {[shape |-> "flat", entries |-> <<Entry("A", TRUE, TRUE, c)>>] : c \in {11000, 12000}}
    \cup
    {[shape |-> "flat", entries |-> <<Entry("C", TRUE, TRUE, 6000)>>]}

FetchOutcomes == {"", "NotFound", "BusinessLogic"}

\* lines 70-72: the fetch that answered stamps the configuration; the stamp
\* is committed with the request and rolled back when the sync raises
FetchRecorded(sid) ==
    [api_config EXCEPT ![sid].last_sync_at = now, ![sid].last_sync_status = "success"]

\* one run of sync_supplier_prices for a supplier of sids, from the fetch's
\* outcome to the flush, and what the handler answers
SyncRun(sids, fetches, feeds) ==
    \E sid \in sids, fetch \in fetches, feed \in feeds, order \in RuleQueryOrders :
        \E r \in {SyncSupplier(Db, sid, fetch, feed, order)} :
            /\ Persist(r.db)
            /\ api_config' = IF r.raised = "" THEN FetchRecorded(sid) ELSE api_config
            /\ result' = [op |-> "sync", n |-> nops + 1, raised |-> r.raised,
                          supplier_id |-> sid, fetch |-> fetch, feed |-> feed,
                          order |-> order,
                          rule_count |-> Len(rules),
                          products_checked |-> r.checked,
                          products_updated |-> r.updated, errors |-> r.errors,
                          resolutions |-> r.resolutions]

SyncRequest(fetches, feeds) ==
    /\ nops < MaxOps
    /\ SyncRun(SupplierIds, fetches, feeds)
    /\ nops' = nops + 1
    /\ UNCHANGED <<rules, session, now>>

SyncSupplierPrices == SyncRequest(FetchOutcomes, Feeds)

SyncCostChange == SyncRequest({""}, CostChangeFeeds)

Next ==
    \/ ApplyAdjustmentRule
    \/ BulkPriceUpdate
    \/ UpdatePrice
    \/ SyncSupplierPrices

Spec == Init /\ [][Next]_vars

NextResolve ==
    \/ CreateAdjustmentRule
    \/ SyncCostChange

SpecResolve == InitResolve /\ [][NextResolve]_vars

NextScoped ==
    \/ CreateScopedRule
    \/ SyncCostChange

SpecScoped == InitResolve /\ [][NextScoped]_vars

(***************************************************************************)
(* _parse_supplier_response on its own: the feeds are the supplier rows'   *)
(* skus with their prices in every shape, any one entry not numeric, any   *)
(* one entry without a price.                                              *)
(***************************************************************************)
ParseFeeds ==
    {[shape |-> sh, entries |-> FeedEntries(l, bad, missing)] :
        sh \in FeedShapes, l \in FeedPriceLists,
        bad \in 0 .. Len(Skus), missing \in 0 .. Len(Skus)}

ParseFeed ==
    /\ \E feed \in ParseFeeds :
          \E r \in {ParseSupplierResponse(feed)} :
              result' = [op |-> "parse", n |-> 0, raised |-> r.raised,
                         feed |-> feed, prices |-> r.prices]
    /\ UNCHANGED <<products, rules, product_suppliers, history, logs, nops, session, api_config, now>>

NextParse == ParseFeed

SpecParse == Init /\ [][NextParse]_vars

(***************************************************************************)
(* Concurrent requests.  Every request has its own session (get_db): the   *)
(* handler loads the product with a select, computes from the loaded       *)
(* object, and its flush sends the INSERTs and the UPDATE of the changed   *)
(* column.  Other requests run between the select and the flush.           *)
(***************************************************************************)
\* what a session holds after its select: the price it loaded, the price it
\* assigned and the rows it added to the session
Loaded(kind, pid, db) ==
    [pc |-> "loaded", kind |-> kind, product_id |-> pid,
     old_price |-> products[pid].retail_price,
     new_price |-> db.products[pid].retail_price,
     history_rows |-> SubSeq(db.history, Len(history) + 1, Len(db.history)),
     log_rows |-> SubSeq(db.logs, Len(logs) + 1, Len(db.logs)),
     loaded_at |-> nops]

\* apply_adjustment_rule up to its flush (lines 277-353)
ApplyLoad ==
    \E s \in Sessions, pid \in ProductIds, rid \in RuleIds, base_cost \in ApplyCosts :
        /\ session[s].pc = "idle"
        /\ \E r \in {ApplyRule(Db, pid, rid, base_cost)} :
              /\ r.raised = ""
              /\ session' = [session EXCEPT ![s] = Loaded("rule_application", pid, r.db)]
        /\ UNCHANGED <<products, rules, product_suppliers, history, logs, result, nops, api_config, now>>

\* bulk_price_update of one product up to its flush (lines 480-520)
BulkLoad ==
    \E s \in Sessions, pid \in ProductIds, adj \in BulkAdjustments :
        /\ session[s].pc = "idle"
        /\ adj[1] \in BulkTypes
        /\ session' = [session EXCEPT ![s] =
                          Loaded("bulk_update", pid, BulkUpdate(Db, <<pid>>, adj[1], adj[2]).db)]
        /\ UNCHANGED <<products, rules, product_suppliers, history, logs, result, nops, api_config, now>>

\* update_price up to its flush (product_service.py lines 259-266)
UpdatePriceLoad ==
    \E s \in Sessions, pid \in ProductIds, price \in {6499, 20000} :
        /\ session[s].pc = "idle"
        /\ session' = [session EXCEPT ![s] =
                          Loaded("manual", pid, UpdatePriceOp(Db, pid, None, Some(price)).db)]
        /\ UNCHANGED <<products, rules, product_suppliers, history, logs, result, nops, api_config, now>>

\* the flush (line 355, line 525, product_service.py line 268): the pending
\* rows are inserted and the changed price is written, whatever the stored
\* price has become since the select
SessionFlush ==
    \E s \in Sessions :
        LET u == session[s]
        IN  /\ u.pc = "loaded"
            /\ history' = history \o u.history_rows
            /\ logs' = logs \o u.log_rows
            /\ products' = IF u.new_price # u.old_price
                            THEN [products EXCEPT ![u.product_id].retail_price = u.new_price]
                            ELSE products
            /\ nops' = nops + 1
            /\ session' = [session EXCEPT ![s] =
                              [u EXCEPT !.pc = "flushed"] @@ [flushed_at |-> nops + 1]]
            /\ UNCHANGED <<rules, product_suppliers, result, api_config, now>>

NextWriters ==
    \/ ApplyLoad
    \/ BulkLoad
    \/ UpdatePriceLoad
    \/ SessionFlush

SpecWriters == Init /\ [][NextWriters]_vars

(***************************************************************************)
(* Concurrent sync requests.  POST /suppliers/{supplier_id}/sync starts    *)
(* sync_supplier_prices in the request's own task; the task waits for the  *)
(* supplier's HTTP response (line 90, line 62) while other requests are    *)
(* served.                                                                 *)
(***************************************************************************)
\* the request is accepted and the task awaits the fetch (endpoints/pricing.py
\* lines 33-36, pricing_service.py line 90)
SyncTrigger ==
    \E s \in Sessions, sid \in SupplierIds :
        /\ nops < MaxOps
        /\ session[s].pc = "idle"
        /\ session' = [session EXCEPT ![s] =
                          [pc |-> "fetching", kind |-> "sync", supplier_id |-> sid]]
        /\ UNCHANGED <<products, rules, product_suppliers, history, logs, result, nops, api_config, now>>

\* the fetch ends and the task runs lines 93-149 to its flush
SyncComplete ==
    \E s \in Sessions :
        /\ session[s].pc = "fetching"
        /\ SyncRun({session[s].supplier_id}, FetchOutcomes, Feeds)
        /\ nops' = nops + 1
        /\ session' = [session EXCEPT ![s] = IdleSession]
        /\ UNCHANGED <<rules, now>>

NextSyncs ==
    \/ SyncTrigger
    \/ SyncComplete

SpecSyncs == Init /\ [][NextSyncs]_vars

(***************************************************************************)
(* Properties                                                              *)
(***************************************************************************)
RetailRows(h, pid) ==
    SelectSeq(h, LAMBDA row : row.product_id = pid /\ row.price_type = "retail")

\* margin >= bound and margin <= bound for the achieved margin of a stored price
MarginAtLeast(price, cost, bound) == ~MarginBelow(Margin(price, cost), bound)
MarginAtMost(price, cost, bound) == ~MarginAbove(Margin(price, cost), bound)

\* C1: every price apply_adjustment_rule has stored (each has its log row)
\* for a cost > 0 under a rule with a minimum margin has a margin
\* (price - cost) / price * 100 of at least that minimum.
C1_MinMarginKept ==
    \A i \in 1 .. Len(logs) :
        LET row  == logs[i]
            rule == rules[row.rule_id]
        IN  (row.cost_at_adjustment > 0 /\ rule.min_margin # 0)
                => MarginAtLeast(row.new_price, row.cost_at_adjustment, rule.min_margin)

\* C2: every price apply_adjustment_rule has stored under a maximum margin M
\* has a margin (price - cost) / price * 100 of at most M.
C2_MaxMarginKept ==
    \A i \in 1 .. Len(logs) :
        LET row  == logs[i]
            rule == rules[row.rule_id]
        IN  (row.cost_at_adjustment > 0 /\ rule.max_margin # 0)
                => MarginAtMost(row.new_price, row.cost_at_adjustment, rule.max_margin)

\* The scope level at which a rule matches a product: 1 product id,
\* 2 category, 3 brand, 4 global, 0 when it does not match.
MatchLevel(rule, pid) ==
    IF rule.product_id # 0 THEN (IF rule.product_id = pid THEN 1 ELSE 0)
    ELSE IF rule.category_id # 0
    THEN (IF rule.category_id = products[pid].category_id THEN 2 ELSE 0)
    ELSE IF rule.brand_id # 0
    THEN (IF rule.brand_id = products[pid].brand_id THEN 3 ELSE 0)
    ELSE 4

MatchingRuleIds(pid) == {i \in QueriedRuleIds : MatchLevel(rules[i], pid) # 0}

MatchingAt(pid, level) == {i \in QueriedRuleIds : MatchLevel(rules[i], pid) = level}

\* the resolutions of the last sync, made against the rule store as it is now
LastResolutions ==
    IF result.op = "sync" /\ result.rule_count = Len(rules)
    THEN {result.resolutions[k] : k \in 1 .. Len(result.resolutions)}
    ELSE {}

\* C3: when a product matches an active product-scoped rule and an active
\* global rule, the resolver selects a product-scoped rule, whatever the
\* priorities are.
C3_ProductRuleBeatsGlobal ==
    \A res \in LastResolutions :
        (MatchingAt(res.product_id, 1) # {} /\ MatchingAt(res.product_id, 4) # {})
            => res.rule_id \in MatchingAt(res.product_id, 1)

\* C4: the resolver returns a rule of the most specific scope level at which
\* an active rule matches the product: product id, then category, then
\* brand, then global.
C4_MostSpecificScopeWins ==
    \A res \in LastResolutions :
        \A level \in 1 .. 4 :
            (/\ MatchingAt(res.product_id, level) # {}
             /\ \A l \in 1 .. level - 1 : MatchingAt(res.product_id, l) = {})
                => res.rule_id \in MatchingAt(res.product_id, level)

\* C5: the selected rule is, among the active rules that match at its scope
\* level, the one of highest priority and, among those of equal priority,
\* the most recently updated one (rules are not edited after their insert,
\* so the later insert, the larger id, is the more recently updated).
C5_HighestPriorityInLevel ==
    \A res \in LastResolutions :
        res.rule_id # 0 =>
            \A j \in MatchingAt(res.product_id, MatchLevel(rules[res.rule_id], res.product_id)) :
                \/ rules[j].priority < rules[res.rule_id].priority
                \/ rules[j].priority = rules[res.rule_id].priority /\ j <= res.rule_id

\* two sessions whose requests loaded the same stored price of one product
\* (each select ran before the other's flush) and assigned different prices
Flushed(s) == session[s].pc = "flushed"

SameStaleRead(s, t) ==
    /\ s # t /\ Flushed(s) /\ Flushed(t)
    /\ session[s].product_id = session[t].product_id
    /\ session[s].old_price = session[t].old_price
    /\ session[s].loaded_at < session[t].flushed_at
    /\ session[t].loaded_at < session[s].flushed_at
    /\ session[s].new_price # session[t].new_price

\* a flushed request has succeeded when its price was written
Succeeded(s) == Flushed(s) /\ session[s].new_price # session[s].old_price

\* C6: two writers that read the same stored retail price of a product and
\* computed different candidate prices never both succeed.
C6_StaleWritersNotBothSucceed ==
    \A s, t \in Sessions : SameStaleRead(s, t) => ~(Succeeded(s) /\ Succeeded(t))

\* C7: the retail PriceHistory rows of a product, in commit order, form a
\* chain: each row's old price is the previous row's new price, and the
\* last row's new price is the product's stored retail_price.
C7_HistoryChain ==
    \A pid \in ProductIds :
        LET rows == RetailRows(history, pid)
        IN  /\ \A i \in 2 .. Len(rows) : rows[i].old_price = rows[i - 1].new_price
            /\ rows # <<>> => rows[Len(rows)].new_price = products[pid].retail_price

\* C8: no step changes a product's retail_price without appending exactly
\* one retail PriceHistory row for it that records the new value.
C8_PriceChangeHasHistoryRow ==
    [][\A pid \in ProductIds :
          products'[pid].retail_price # products[pid].retail_price
              => /\ Len(RetailRows(history', pid)) = Len(RetailRows(history, pid)) + 1
                 /\ RetailRows(history', pid)[Len(RetailRows(history', pid))].new_price
                        = products'[pid].retail_price]_vars

\* C9: a rule application whose computed price is within one cent of the
\* stored retail price creates no PriceHistory row and no PriceAdjustmentLog
\* row and leaves the stored price as it was.
C9_NoOpWithinOneCent ==
    [][(/\ result'.op = "apply" /\ result'.n # result.n /\ result'.raised = ""
        /\ Abs(result'.computed - result'.old_price) <= 1)
          => (history' = history /\ logs' = logs /\ products' = products)]_vars

\* the entries of a feed whose price is missing or is not a number
MalformedEntries(feed) ==
    {i \in 1 .. Len(feed.entries) :
        ~feed.entries[i].has_price \/ ~feed.entries[i].numeric}

\* the supplier row of a sku
RowOfSku(sku) ==
    CHOOSE i \in DOMAIN product_suppliers : product_suppliers[i].supplier_sku = sku

\* C10: a sync whose feed has malformed data for exactly one of its skus
\* returns without raising, reports exactly one per-product error, and has
\* given every other sku's row the cost of the feed.
C10_OneMalformedSkuIsolated ==
    (/\ result.op = "sync" /\ result.fetch = ""
     /\ Cardinality(MalformedEntries(result.feed)) = 1)
        => /\ result.raised = ""
           /\ Len(result.errors) = 1
           /\ \A i \in 1 .. Len(result.feed.entries) :
                 i \notin MalformedEntries(result.feed)
                    => product_suppliers[RowOfSku(result.feed.entries[i].sku)].cost_price
                          = result.feed.entries[i].price

\* C11: a bulk update requested with preview_only = true leaves every
\* product's retail_price and the PriceHistory unchanged.
C11_BulkPreviewPure ==
    [][(result'.op = "bulk" /\ result'.n # result.n /\ result'.preview_only)
          => (products' = products /\ history' = history)]_vars

\* a sync task of the supplier is running in session s
SyncRunning(s, sid) ==
    session[s].pc = "fetching" /\ session[s].supplier_id = sid

\* C12: at no time are two sync tasks of the same supplier running.
C12_SingleFlightPerSupplier ==
    \A sid \in SupplierIds :
        \A s, t \in Sessions :
            (SyncRunning(s, sid) /\ SyncRunning(t, sid)) => s = t

CostRows(h, pid) ==
    SelectSeq(h, LAMBDA row : row.product_id = pid /\ row.price_type = "cost")

\* the rows of a supplier the sync looks at
ActiveRowIds(sid) ==
    {i \in DOMAIN product_suppliers :
        product_suppliers[i].supplier_id = sid /\ product_suppliers[i].is_active}

\* C13: a sync that returns has, for every active row of the supplier whose
\* sku is in the normalized mapping: when the fetched cost differs from the
\* row's cost, appended exactly one cost PriceHistory row, set cost_price and
\* last_cost_price to the fetched cost and set last_checked_at; when it does
\* not differ, appended nothing and left the row as it was.
C13_CostChangeRecorded ==
    [][(result'.op = "sync" /\ result'.n # result.n /\ result'.raised = "")
          => \A id \in ActiveRowIds(result'.supplier_id) :
                LET ps     == product_suppliers[id]
                    prices == ParseSupplierResponse(result'.feed).prices
                    added  == Len(CostRows(history', ps.product_id))
                                  - Len(CostRows(history, ps.product_id))
                IN  ps.supplier_sku \in DOMAIN prices =>
                        IF prices[ps.supplier_sku] # ps.cost_price
                        THEN /\ added = 1
                             /\ product_suppliers'[id].cost_price = prices[ps.supplier_sku]
                             /\ product_suppliers'[id].last_cost_price = prices[ps.supplier_sku]
                             /\ product_suppliers'[id].last_checked_at # 0
                        ELSE /\ added = 0
                             /\ product_suppliers'[id] = ps]_vars

LogRows(l, pid) == SelectSeq(l, LAMBDA row : row.product_id = pid)

\* C14: when no active rule matches a product at any scope level, a sync
\* that brings a changed cost for it stores the cost and appends the cost
\* history row, leaves the product's retail_price as it was and creates no
\* retail PriceHistory row and no PriceAdjustmentLog row for it.
C14_NoRuleCostOnly ==
    [][(result'.op = "sync" /\ result'.n # result.n /\ result'.raised = "")
          => \A id \in ActiveRowIds(result'.supplier_id) :
                LET ps     == product_suppliers[id]
                    pid    == ps.product_id
                    prices == ParseSupplierResponse(result'.feed).prices
                IN  (/\ ps.supplier_sku \in DOMAIN prices
                     /\ prices[ps.supplier_sku] # ps.cost_price
                     /\ MatchingRuleIds(pid) = {})
                        => /\ product_suppliers'[id].cost_price = prices[ps.supplier_sku]
                           /\ Len(CostRows(history', pid)) = Len(CostRows(history, pid)) + 1
                           /\ CostRows(history', pid)[Len(CostRows(history', pid))].new_price
                                  = prices[ps.supplier_sku]
                           /\ products'[pid] = products[pid]
                           /\ RetailRows(history', pid) = RetailRows(history, pid)
                           /\ LogRows(logs', pid) = LogRows(logs, pid)]_vars

\* a sync has stored a changed cost for a product that none of the stored
\* rules matches
C14_Witness ==
    /\ rules # <<>>
    /\ \E res \in LastResolutions :
          /\ res.rule_id = 0
          /\ MatchingRuleIds(res.product_id) = {}
          /\ CostRows(history, res.product_id) # <<>>

\* the shapes _parse_supplier_response recognizes
RecognizedShapes == {"items", "flat", "products"}

\* C15: a sync whose fetched feed is not of a recognized shape does not
\* raise, changes no cost (the mapping is empty) and reports a parse error
\* in its result.
C15_UnrecognizedShapeReported ==
    (/\ result.op = "sync" /\ result.fetch = ""
     /\ result.feed.shape \notin RecognizedShapes)
        => /\ result.raised = ""
           /\ result.products_updated = 0
           /\ result.errors # <<>>

\* the sku/price pairs a feed carries
FeedPairs(feed) ==
    LET present == {i \in 1 .. Len(feed.entries) : feed.entries[i].has_price}
    IN  [sku \in {feed.entries[i].sku : i \in present} |->
            feed.entries[CHOOSE i \in present : feed.entries[i].sku = sku].price]

WellFormed(feed) == \A i \in 1 .. Len(feed.entries) : feed.entries[i].numeric

ParsedTo(shapes) ==
    (result.op = "parse" /\ result.feed.shape \in shapes /\ WellFormed(result.feed))
        => (result.raised = "" /\ result.prices = FeedPairs(result.feed))

\* C16 (as amended): the parser maps each of its three shapes carrying the
\* same sku/price pairs to the same sku-to-cost mapping, the pairs
\* themselves: a list of {sku, price} objects under an "items" key, a flat
\* {sku: price} map, and a nested {products: {sku: {price}}} map.
C16_ThreeShapesSameMapping == ParsedTo({"items", "flat", "products"})

\* C16 (as stated): a list of {sku, price} objects, a flat {sku: price} map
\* and a nested {products: {sku: {price}}} map carrying the same pairs are
\* mapped to the same sku-to-cost mapping.
C16_ListFlatNestedSameMapping == ParsedTo({"list", "flat", "products"})

\* a nested products map with a price for every sku has been parsed
C16_Witness ==
    /\ result.op = "parse" /\ result.feed.shape = "products"
    /\ WellFormed(result.feed)
    /\ DOMAIN result.prices = {Skus[i] : i \in 1 .. Len(Skus)}

InList(x, list) == \E i \in 1 .. Len(list) : list[i] = x

C18_BadTypeRejected ==
    (result.op = "bulk" /\ result.adjustment_type \notin BulkTypes)
        => result.raised = "Validation"

\* C19: a sync whose fetch failed (fetch_supplier_prices raised
\* BusinessLogicError for the HTTP error or timeout) does not raise: the
\* failure is recorded in the sync's result.
C19_FetchFailureRecorded ==
    (result.op = "sync" /\ result.fetch = "BusinessLogic")
        => (result.raised = "" /\ result.errors # <<>>)

\* C20: apply_adjustment_rule raises NotFound when the product or the rule
\* does not exist and raises an error when neither the base_cost argument
\* nor the product's base_cost is a non-zero cost; whenever it raises, the
\* retail prices, the PriceHistory and the PriceAdjustmentLog are unchanged.
C20_ApplyFailuresLeaveStore ==
    [][(result'.op = "apply" /\ result'.n # result.n)
          => LET pid == result'.product_id
                 rid == result'.rule_id
             IN  /\ (pid \notin DOMAIN products \/ rid \notin RuleIds)
                        => result'.raised = "NotFound"
                 /\ (/\ pid \in DOMAIN products /\ rid \in RuleIds
                     /\ result'.base_cost = 0 /\ products[pid].base_cost = 0)
                        => result'.raised \notin {"", "NotFound"}
                 /\ result'.raised # ""
                        => (products' = products /\ history' = history /\ logs' = logs)]_vars

\* a rule application has failed on a product that has no cost
C20_Witness ==
    /\ result.op = "apply"
    /\ result.raised = "BusinessLogic"
    /\ result.base_cost = 0
    /\ products[result.product_id].base_cost = 0

(***************************************************************************)
(* The handlers that read, and the scheduling record.  The service reads   *)
(* and writes sync_interval_hours and next_sync_at on the supplier's API   *)
(* configuration (lines 551-552, 569).                                     *)
(***************************************************************************)
MaxTime == 3
SyncIntervals == {2}
MissingSupplierId == Cardinality(SupplierIds) + 1

\* schedule_price_sync, lines 534-560
SchedulePriceSync ==
    /\ \E sid \in SupplierIds \cup {MissingSupplierId}, sync_interval_hours \in SyncIntervals :
          IF sid \notin DOMAIN api_config
          THEN /\ result' = [op |-> "schedule", n |-> nops, raised |-> "NotFound",
                             supplier_id |-> sid]
               /\ UNCHANGED api_config
          ELSE /\ api_config' = [api_config EXCEPT
                                    ![sid].sync_interval_hours = sync_interval_hours,
                                    ![sid].next_sync_at = now + sync_interval_hours]
               /\ result' = [op |-> "schedule", n |-> nops, raised |-> "",
                             supplier_id |-> sid,
                             sync_interval_hours |-> sync_interval_hours,
                             next_sync_at |-> now + sync_interval_hours]
    /\ UNCHANGED <<products, rules, product_suppliers, history, logs, nops, session, now>>

\* the where clause of lines 566-570; a next_sync_at that is NULL compares
\* as unknown and the row is left out
DueSuppliers ==
    {sid \in DOMAIN api_config :
        /\ api_config[sid].is_active
        /\ api_config[sid].next_sync_at # 0
        /\ api_config[sid].next_sync_at <= now}

\* get_suppliers_due_for_sync, lines 562-572
GetSuppliersDueForSync ==
    /\ result' = [op |-> "due", n |-> nops, raised |-> "", at |-> now,
                  suppliers |-> DueSuppliers]
    /\ UNCHANGED <<products, rules, product_suppliers, history, logs, nops, session, api_config, now>>

\* lines 436-449: the products that have a cost and a price, with their margin
MarginAnalysis(ids) ==
    LET analysed == {pid \in ids : products[pid].base_cost # 0 /\ products[pid].retail_price # 0}
    IN  [pid \in analysed |->
            [cost |-> products[pid].base_cost, price |-> products[pid].retail_price,
             margin_percent |-> Margin(products[pid].retail_price, products[pid].base_cost)]]

\* get_margin_analysis, lines 422-467; product_id 0 is no filter
GetMarginAnalysis ==
    /\ \E product_id \in {0, 1, MissingProductId} :
          result' = [op |-> "margin_analysis", n |-> nops, raised |-> "",
                     product_id |-> product_id,
                     products |-> MarginAnalysis(IF product_id = 0 THEN ProductIds
                                                 ELSE ProductIds \cap {product_id})]
    /\ UNCHANGED <<products, rules, product_suppliers, history, logs, nops, session, api_config, now>>

\* fetch_competitor_prices, lines 361-401: the configuration is missing, or
\* inactive or without endpoint or unreachable, or the competitor answered;
\* last_check_at and last_check_status are no columns of CompetitorConfig
\* and nothing of them is stored
CompetitorOutcomes == {"", "NotFound", "BusinessLogic"}

FetchCompetitorPrices ==
    /\ \E competitor_id \in {1}, outcome \in CompetitorOutcomes :
          result' = [op |-> "competitor", n |-> nops, raised |-> outcome,
                     competitor_id |-> competitor_id]
    /\ UNCHANGED <<products, rules, product_suppliers, history, logs, nops, session, api_config, now>>

\* an hour passes
Tick ==
    /\ now < MaxTime
    /\ now' = now + 1
    /\ UNCHANGED <<products, rules, product_suppliers, history, logs, result, nops, session, api_config>>

\* every handler of the pricing service that the ledgers can see
NextOps ==
    \/ SyncCostChange
    \/ ApplyAdjustmentRule
    \/ BulkPriceUpdate
    \/ FetchCompetitorPrices
    \/ GetMarginAnalysis
    \/ SchedulePriceSync
    \/ GetSuppliersDueForSync

SpecOps == Init /\ [][NextOps]_vars

\* the scheduler's view: scheduling, the clock, the due list and the syncs
NextSchedule ==
    \/ SchedulePriceSync
    \/ Tick
    \/ GetSuppliersDueForSync
    \/ SyncCostChange

SpecSchedule == Init /\ [][NextSchedule]_vars

\* C21: the ledgers are append-only: every step of every handler leaves the
\* PriceHistory and PriceAdjustmentLog rows it found in place and unchanged,
\* new rows only follow them
C21_LedgersAppendOnly ==
    [][/\ Len(history') >= Len(history)
       /\ SubSeq(history', 1, Len(history)) = history
       /\ Len(logs') >= Len(logs)
       /\ SubSeq(logs', 1, Len(logs)) = logs]_vars

\* C21: a bulk update of one product has appended its row behind the rows
\* and the log row that earlier operations wrote
C21_Witness ==
    /\ result.op = "bulk"
    /\ result.products_updated = 1
    /\ Len(history) >= 3
    /\ Len(logs) >= 1

\* the rule of the worked example: 30 % percentage markup, margin bounds 15 % and 40 %
WorkedRule(rule) ==
    /\ rule.adjustment_type = "percentage"
    /\ rule.adjustment_value = 3000
    /\ rule.min_margin = 1500
    /\ rule.max_margin = 4000

\* C22: the worked example: applying the 30 % percentage-markup rule with
\* margin bounds 15 % and 40 % to a product with cost 50.00 whose stored
\* price is neither 64.99 nor 65.00 stores 64.99 and appends exactly one
\* PriceHistory row and exactly one PriceAdjustmentLog row with status applied.
C22_WorkedExample ==
    [][(/\ result'.op = "apply"
        /\ result'.n = nops + 1
        /\ result'.raised = ""
        /\ result'.base_cost = 0
        /\ products[result'.product_id].base_cost = 5000
        /\ products[result'.product_id].retail_price \notin {6499, 6500}
        /\ WorkedRule(rules[result'.rule_id]))
       => /\ products'[result'.product_id].retail_price = 6499
          /\ Len(history') = Len(history) + 1
          /\ Len(logs') = Len(logs) + 1
          /\ logs'[Len(logs')].status = "applied"]_vars

\* C23: rounding idempotence: the rounding step (quantize to the cent, half
\* up) returns an already rounded price as it is, so applying a rule again,
\* with the same cost, to the product the same rule has just priced raises
\* nothing, changes no price and appends no row.
C23_ReapplyChangesNothing ==
    [][(/\ result.op = "apply"
        /\ result.raised = ""
        /\ result'.op = "apply"
        /\ result'.n = nops + 1
        /\ result'.product_id = result.product_id
        /\ result'.rule_id = result.rule_id
        /\ result'.base_cost = result.base_cost)
       => /\ Quantize(result.computed * 100, 100) = result.computed
          /\ result'.raised = ""
          /\ result'.computed = result.computed
          /\ products' = products
          /\ history' = history
          /\ logs' = logs]_vars

\* C23: a rule has priced a product, writing its log row, and the same rule
\* was applied again with the same cost
C23_Witness ==
    /\ result.op = "apply"
    /\ result.raised = ""
    /\ nops = 2
    /\ result.base_cost = 4999
    /\ result.computed = result.old_price
    /\ Len(logs) = 1
    /\ logs[1].product_id = result.product_id
    /\ logs[1].rule_id = result.rule_id
    /\ logs[1].cost_at_adjustment = 4999
    /\ logs[1].new_price = result.computed

\* two margins are the same number (every num is a multiple of 100)
SameMargin(a, b) == (a.num \div 100) * b.den = (b.num \div 100) * a.den

\* C24: the margin recorded in every PriceAdjustmentLog row is the achieved
\* margin (new_price - cost) / new_price * 100 of the row's new_price and
\* cost_at_adjustment, also when a margin clamp recomputed the price.
C24_LoggedMarginIsAchieved ==
    \A i \in 1 .. Len(logs) :
        SameMargin(logs[i].margin_achieved,
                   Margin(logs[i].new_price, logs[i].cost_at_adjustment))

\* C29: after a sync has changed a product's supplier cost and a rule has
\* re-priced the product, Product.base_cost is the cost the new price was
\* computed from, and the margin get_margin_analysis reports for the product
\* is the margin of the new price over that cost.
C29_BaseCostFollowsSync ==
    [][(/\ result'.op = "sync"
        /\ result'.n = nops + 1
        /\ result'.raised = "")
       => \A pid \in ProductIds :
             Len(LogRows(logs', pid)) > Len(LogRows(logs, pid))
             => LET row == LogRows(logs', pid)[Len(LogRows(logs', pid))]
                IN  /\ products'[pid].base_cost = row.cost_at_adjustment
                    /\ products'[pid].retail_price = row.new_price
                    /\ SameMargin(Margin(products'[pid].retail_price, products'[pid].base_cost),
                                  Margin(row.new_price, row.cost_at_adjustment))]_vars

(***************************************************************************)
(* A rule store with a deactivated rule (is_active, models/price_history.py*)
(* line 68): the brand rule is switched off.                               *)
(***************************************************************************)
InactiveRuleId == 4

InactiveRules ==
    [i \in DOMAIN InitRules |->
        IF i = InactiveRuleId THEN [InitRules[i] EXCEPT !.is_active = FALSE] ELSE InitRules[i]]

InitInactive == InitStore /\ rules = InactiveRules

NextInactive ==
    \/ ApplyAdjustmentRule
    \/ SyncCostChange

SpecInactive == InitInactive /\ [][NextInactive]_vars

\* C30: no retail price is changed under a rule that is inactive: no step
\* appends a PriceAdjustmentLog row whose rule is inactive, and
\* apply_adjustment_rule called with the id of an inactive rule changes no
\* price and writes no PriceHistory or PriceAdjustmentLog row.
C30_InactiveRuleChangesNothing ==
    [][/\ \A i \in Len(logs) + 1 .. Len(logs') : rules[logs'[i].rule_id].is_active
       /\ (/\ result'.op = "apply"
           /\ result'.n = nops + 1
           /\ result'.rule_id \in RuleIds
           /\ ~rules[result'.rule_id].is_active)
          => /\ products' = products
             /\ history' = history
             /\ logs' = logs]_vars

(***************************************************************************)
(* A rule store in which the rule a product resolves to cannot be applied: *)
(* create_adjustment_rule (lines 202-234) stores any adjustment_type, and  *)
(* the calculator raises on one it does not know (lines 310-311).          *)
(***************************************************************************)
FaultyRules ==
    <<Rule(1, 0, 0, 0, 10, "percentage", 3000, 0, 0),
      Rule(2, 0, 0, 1, 50, "set_margin", 3000, 0, 0)>>

InitFaulty == InitStore /\ rules = FaultyRules

NextFaulty == SyncSupplierPrices

SpecFaulty == InitFaulty /\ [][NextFaulty]_vars

\* the products a sync result reports in its errors list
ErrorProducts(res) == {res.errors[k].product_id : k \in 1 .. Len(res.errors)}

AllRows(h, pid) == SelectSeq(h, LAMBDA row : row.product_id = pid)

\* C27: when a sync reports a ProductSupplier row's product in its errors
\* list, that row's cost_price is what it was before the sync and the sync
\* has appended no PriceHistory row for that product.
C27_FailedRowUntouched ==
    [][(/\ result'.op = "sync"
        /\ result'.n = nops + 1
        /\ result'.raised = "")
       => \A id \in ActiveRowIds(result'.supplier_id) :
             product_suppliers[id].product_id \in ErrorProducts(result')
             => /\ product_suppliers'[id].cost_price = product_suppliers[id].cost_price
                /\ AllRows(history', product_suppliers[id].product_id)
                      = AllRows(history, product_suppliers[id].product_id)]_vars

\* the rows of the supplier whose cost_price the step changed
CostChanged(sid) ==
    {id \in ActiveRowIds(sid) :
        product_suppliers'[id].cost_price # product_suppliers[id].cost_price}

\* C28: in every sync result products_checked is the number of active
\* ProductSupplier rows of the supplier, products_updated is the number of
\* those rows whose cost_price the sync changed, and products_updated plus
\* the number of errors is at most products_checked.
C28_SyncCounts ==
    [][(/\ result'.op = "sync"
        /\ result'.n = nops + 1
        /\ result'.raised = "")
       => /\ result'.products_checked = Cardinality(ActiveRowIds(result'.supplier_id))
          /\ result'.products_updated = Cardinality(CostChanged(result'.supplier_id))
          /\ result'.products_updated + Len(result'.errors) <= result'.products_checked]_vars

(***************************************************************************)
(* Feeds whose prices may have a third decimal, synced into a store        *)
(* without rules (the calculator is modelled on whole cents).              *)
(***************************************************************************)
DecimalEntries(list, inexact) ==
    [i \in 1 .. Len(Skus) |->
        IF i = inexact THEN InexactEntry(Skus[i], list[i])
        ELSE Entry(Skus[i], TRUE, TRUE, list[i])]

DecimalFeeds ==
    {[shape |-> sh, entries |-> DecimalEntries(l, inexact)] :
        sh \in {"items", "flat", "products"}, l \in FeedPriceLists, inexact \in 0 .. Len(Skus)}

SyncDecimalFeed == SyncRequest({""}, DecimalFeeds)

NextDecimals == SyncDecimalFeed

SpecDecimals == InitResolve /\ [][NextDecimals]_vars

\* C26: sync idempotence: a sync that runs straight after a sync of the same
\* supplier, against the same feed contents, reports products_updated = 0,
\* appends no PriceHistory and no PriceAdjustmentLog row and changes no cost
\* and no retail price.
C26_SecondSyncChangesNothing ==
    [][(/\ result.op = "sync"
        /\ result.raised = ""
        /\ result'.op = "sync"
        /\ result'.n = nops + 1
        /\ result'.raised = ""
        /\ result'.supplier_id = result.supplier_id
        /\ result'.feed = result.feed)
       => /\ result'.products_updated = 0
          /\ history' = history
          /\ logs' = logs
          /\ products' = products
          /\ product_suppliers' = product_suppliers]_vars

\* C25: no duplicate syncs: a supplier that get_suppliers_due_for_sync
\* returns has either never been synced or was last synced at least its
\* sync interval ago.
C25_NotDueWithinInterval ==
    result.op = "due"
    => \A sid \in result.suppliers :
          \/ api_config[sid].last_sync_at = 0
          \/ now >= api_config[sid].last_sync_at + api_config[sid].sync_interval_hours

====
